---- MODULE Spec2Model ----
(***************************************************************************)
(* The distributed-training timing harness of                              *)
(* torchbenchmark/util/distributed/trainer.py (class Trainer): setup(),    *)
(* measure() and teardown(), run by one host process per device (SPMD).    *)
(* Each process has a host thread, whose position in the method it is      *)
(* running is pc[p], and a device that executes the operations the host    *)
(* issues asynchronously and in order.                                     *)
(***************************************************************************)
EXTENDS Integers, Sequences, FiniteSets, TLC

\* ------------------------------------------------------------------ bounds
NumProcs == 2       \* processes of the largest group
MaxIters == 2       \* largest DEFAULT_MEASURE_ITERATIONS a subclass declares
MaxCalls == 3       \* calls a caller makes on one trainer
MaxTicks == 2       \* ticks the wall clock advances in all
TicksPerSecond == 2 \* wall-clock ticks in one second
MaxDelay == 2       \* longest device time of one phase
MaxJitter == 1      \* largest variation the device adds to a phase's time
MaxQueue == 1       \* operations the device queue holds before the host waits

Procs == 1..NumProcs

\* ------------------------------------------------------------------ values
Absent == "absent"               \* an environment variable that is not set
EnvNames == {"LOCAL_RANK", "WORLD_SIZE", "RANK"}
Phases == {"fwd", "bwd", "opt"}
EventLists == {"pre_fwd", "pre_bwd", "pre_opt", "post_opt"}

VARIABLES
    \* the program each process runs: the trainer's class and arguments
    mode,          \* self.mode
    overrides,     \* the methods among next_batch, forward, backward and
                   \* optimizer_step that type(self) overrides
    itersAttr,     \* type(self).DEFAULT_MEASURE_ITERATIONS, when defined
    setsRank,      \* type(self) assigns self.rank
    profiler,      \* self.args.profiler
    environ,       \* os.environ of each process
    phaseDelay,    \* device time of forward, backward, optimizer step
    jitter,        \* largest variation the device adds to one phase
    world,         \* the processes of the job
    driver,        \* "spmd": setup, measure, teardown; "any": any calls, caught
    \* host
    pc,            \* position of the host in the method it runs
    raised,        \* the exception the last call of the process raised, or "none"
    local_rank, world_size, rank,   \* locals of setup()
    self_local_rank,                \* self.local_rank
    niters, i,                      \* locals of measure()
    events,                         \* the four event lists of measure()
    delays,                         \* delays_fwd, delays_bwd, delays_opt
    stats,                          \* the six statistics
    name,                           \* the run name
    result,                         \* what the last measure() returned
    \* device
    queue,         \* the operations issued to the device and not yet executed
    devclock,      \* device time
    boundDevice,   \* the device the process is bound to
    \* process group and barrier
    group,         \* the default process group exists in the process
    entered,       \* the barriers the process entered
    \* wall clock and file system
    now,           \* wall clock when it was last read, in ticks
    files,         \* {job_dir}/delay/*.log: run name -> lines
    traces,        \* {job_dir}/tb/*: the exported traces
    \* history
    oplog,         \* the operations the running measure() issued, in order
    spent,         \* the device time each timed phase took, by iteration
    hist           \* what each process did so far

vars == <<mode, overrides, itersAttr, setsRank, profiler, environ, phaseDelay,
          jitter, world, driver, pc, raised, local_rank, world_size,
          rank, self_local_rank, niters, i, events, delays, stats, name, result,
          queue, devclock, boundDevice, group, entered, now, files,
          traces, oplog, spent, hist>>

progVars == <<mode, overrides, itersAttr, setsRank, profiler, environ,
              phaseDelay, jitter, world, driver>>
setupVars == <<local_rank, world_size, rank>>
measureVars == <<niters, i, events, delays, stats, name>>
deviceVars == <<queue, devclock, spent>>
fsVars == <<files, traces>>

\* ------------------------------------------------------------------ helpers
\* An optional value: None is "not assigned", Some(v) holds v.
None == {}
Some(v) == {v}
Get(s) == CHOOSE v \in s : TRUE

\* int(s) for the strings of the model; None when int() raises ValueError.
Numerals == <<"0", "1", "2", "3", "4">>
ParseInt(s) ==
    CASE s = "-2" -> Some(0 - 2)
      [] s = "-1" -> Some(0 - 1)
      [] \E k \in DOMAIN Numerals : Numerals[k] = s ->
            Some((CHOOSE k \in DOMAIN Numerals : Numerals[k] = s) - 1)
      [] OTHER -> None

\* int(os.getenv(n, -1)) in process p: None when int() raises.
GetenvInt(p, n) ==
    IF environ[p][n] = Absent THEN Some(0 - 1) ELSE ParseInt(environ[p][n])

Calls == {"setup", "measure", "teardown"}
SpmdScript == <<"setup", "measure", "teardown">>

\* What a process did so far: the calls made on its trainer and the last of
\* them, the environment reads, the arguments of set_device, the values setup()
\* held when it called init_process_group, the groups created, the calls of
\* destroy_process_group and those that found a group, the runs of measure(),
\* those that returned, those that wrote their summary and the number of
\* summary writes, and the elapsed
\* times read from an event the device had not reached; and, of the running
\* (or last) measure(), the extension points it called and those that returned.
NoHist == [calls |-> 0, last |-> "none", envReads |-> 0, setDevice |-> {},
           initCalls |-> {}, created |-> 0, destroys |-> 0, destroyed |-> 0,
           runs |-> 0, returns |-> 0, wrote |-> {}, earlyQueries |-> 0,
           called |-> {}, returned |-> {}, writes |-> 0]

Catches(p) == driver[p] = "any"

\* A call ends: by a return (exc = "none") or by raising exc.  An exception the
\* caller does not catch ends the process.
EndCall(p, exc) ==
    /\ raised' = [raised EXCEPT ![p] = exc]
    /\ pc' = [pc EXCEPT ![p] = IF exc = "none" \/ Catches(p) THEN "idle" ELSE "dead"]
    /\ local_rank' = [local_rank EXCEPT ![p] = None]
    /\ world_size' = [world_size EXCEPT ![p] = None]
    /\ rank' = [rank EXCEPT ![p] = None]

Goto(p, l) == pc' = [pc EXCEPT ![p] = l]

\* ------------------------------------------------------------------ caller
\* The caller of process p makes its next call on the trainer.
Call(p, c) ==
    /\ p \in world
    /\ pc[p] = "idle"
    /\ hist[p].calls < MaxCalls
    /\ driver[p] = "spmd" =>
          /\ hist[p].calls < Len(SpmdScript)
          /\ c = SpmdScript[hist[p].calls + 1]
    /\ Goto(p, c)
    /\ raised' = [raised EXCEPT ![p] = "none"]
    /\ result' = [result EXCEPT ![p] = None]
    /\ oplog' = [oplog EXCEPT ![p] = IF c = "measure" THEN <<>> ELSE @]
    /\ hist' = [hist EXCEPT ![p].calls = @ + 1,
                            ![p].last = c,
                            ![p].runs = IF c = "measure" THEN @ + 1 ELSE @,
                            ![p].called = IF c = "measure" THEN {} ELSE @,
                            ![p].returned = IF c = "measure" THEN {} ELSE @]
    /\ UNCHANGED <<progVars, setupVars, self_local_rank, measureVars,
                   deviceVars, boundDevice, group, entered, now, fsVars>>

\* ------------------------------------------------------------------ setup()
\* setup() without its mode test: LOCAL_RANK is read whatever the mode.
SetupWithoutModeTest(p) ==
    /\ pc[p] = "setup"
    /\ hist' = [hist EXCEPT ![p].envReads = @ + 1]
    /\ IF GetenvInt(p, "LOCAL_RANK") = None
       THEN /\ EndCall(p, "ValueError: int")
            /\ UNCHANGED self_local_rank
       ELSE /\ local_rank' = [local_rank EXCEPT ![p] = GetenvInt(p, "LOCAL_RANK")]
            /\ self_local_rank' = [self_local_rank EXCEPT ![p] = GetenvInt(p, "LOCAL_RANK")]
            /\ Goto(p, "set_device")
            /\ UNCHANGED <<raised, world_size, rank>>
    /\ UNCHANGED <<progVars, measureVars, result, oplog, deviceVars, boundDevice,
                   group, entered, now, fsVars>>

\* line 19 and 50-51: the mode test; line 20-21: LOCAL_RANK is read and kept.
SetupReadLocalRank(p) ==
    /\ pc[p] = "setup"
    /\ IF mode[p] # "SPMD"
       THEN /\ EndCall(p, "ValueError: mode")
            /\ UNCHANGED <<self_local_rank, hist>>
       ELSE /\ hist' = [hist EXCEPT ![p].envReads = @ + 1]
            /\ IF GetenvInt(p, "LOCAL_RANK") = None
               THEN /\ EndCall(p, "ValueError: int")
                    /\ UNCHANGED self_local_rank
               ELSE /\ local_rank' = [local_rank EXCEPT ![p] = GetenvInt(p, "LOCAL_RANK")]
                    /\ self_local_rank' = [self_local_rank EXCEPT ![p] = GetenvInt(p, "LOCAL_RANK")]
                    /\ Goto(p, "set_device")
                    /\ UNCHANGED <<raised, world_size, rank>>
    /\ UNCHANGED <<progVars, measureVars, result, oplog, deviceVars, boundDevice,
                   group, entered, now, fsVars>>

\* line 36: torch.cuda.set_device(local_rank); a negative index binds nothing.
SetDevice(p) ==
    /\ pc[p] = "set_device"
    /\ hist' = [hist EXCEPT ![p].setDevice = @ \cup local_rank[p]]
    /\ boundDevice' = [boundDevice EXCEPT ![p] =
                          IF Get(local_rank[p]) >= 0 THEN local_rank[p] ELSE @]
    /\ Goto(p, "read_world_size")
    /\ UNCHANGED <<progVars, raised, setupVars, self_local_rank,
                   measureVars, result, oplog, deviceVars, group, entered, now, fsVars>>

\* line 38
SetupReadWorldSize(p) ==
    /\ pc[p] = "read_world_size"
    /\ hist' = [hist EXCEPT ![p].envReads = @ + 1]
    /\ IF GetenvInt(p, "WORLD_SIZE") = None
       THEN EndCall(p, "ValueError: int")
       ELSE /\ world_size' = [world_size EXCEPT ![p] = GetenvInt(p, "WORLD_SIZE")]
            /\ Goto(p, "read_rank")
            /\ UNCHANGED <<raised, local_rank, rank>>
    /\ UNCHANGED <<progVars, self_local_rank, measureVars, result, oplog, deviceVars,
                   boundDevice, group, entered, now, fsVars>>

\* line 39
SetupReadRank(p) ==
    /\ pc[p] = "read_rank"
    /\ hist' = [hist EXCEPT ![p].envReads = @ + 1]
    /\ IF GetenvInt(p, "RANK") = None
       THEN EndCall(p, "ValueError: int")
       ELSE /\ rank' = [rank EXCEPT ![p] = GetenvInt(p, "RANK")]
            /\ Goto(p, "assert_env")
            /\ UNCHANGED <<raised, local_rank, world_size>>
    /\ UNCHANGED <<progVars, self_local_rank, measureVars, result, oplog, deviceVars,
                   boundDevice, group, entered, now, fsVars>>

\* An assertion that tests the local rank alone.
EnvAssertedLocalOnly(lr, ws, r) == lr # 0 - 1

\* line 41-46: the assertion on the three values
EnvAsserted(lr, ws, r) == lr # 0 - 1 /\ ws # 0 - 1 /\ r # 0 - 1

SetupAssert(p) ==
    /\ pc[p] = "assert_env"
    /\ IF EnvAsserted(Get(local_rank[p]), Get(world_size[p]), Get(rank[p]))
       THEN /\ Goto(p, "init_process_group")
            /\ UNCHANGED <<raised, setupVars>>
       ELSE EndCall(p, "AssertionError")
    /\ UNCHANGED <<progVars, self_local_rank, measureVars, result, oplog, deviceVars,
                   boundDevice, group, entered, now, fsVars, hist>>

\* line 49: dist.init_process_group("nccl", init_method, rank, world_size).
\* The library refuses a second default group and a rank outside the world.
InitProcessGroup(p) ==
    /\ pc[p] = "init_process_group"
    /\ LET r == Get(rank[p])
           ws == Get(world_size[p])
           ok == ~group[p] /\ 0 <= r /\ r < ws
       IN /\ hist' = [hist EXCEPT ![p].initCalls = @ \cup
                                        {[local_rank |-> Get(local_rank[p]),
                                          world_size |-> ws, rank |-> r]},
                                  ![p].created = IF ok THEN @ + 1 ELSE @]
          /\ group' = [group EXCEPT ![p] = @ \/ ok]
          /\ EndCall(p, IF ok THEN "none" ELSE "RuntimeError")
    /\ UNCHANGED <<progVars, self_local_rank, measureVars, result, oplog, deviceVars,
                   boundDevice, entered, now, fsVars>>

\* ------------------------------------------------------------------ teardown()
\* line 167-169: dist.destroy_process_group(); the library raises when there is
\* no default group to destroy.
Teardown(p) ==
    /\ pc[p] = "teardown"
    /\ IF mode[p] = "SPMD"
       THEN /\ hist' = [hist EXCEPT ![p].destroys = @ + 1,
                                    ![p].destroyed = IF group[p] THEN @ + 1 ELSE @]
            /\ group' = [group EXCEPT ![p] = FALSE]
            /\ EndCall(p, IF group[p] THEN "none" ELSE "RuntimeError")
       ELSE /\ EndCall(p, "none")
            /\ UNCHANGED <<group, hist>>
    /\ UNCHANGED <<progVars, self_local_rank, measureVars, result, oplog, deviceVars,
                   boundDevice, entered, now, fsVars>>

\* ------------------------------------------------------------------ device
\* An operation issued to the device: a phase of a training step or the
\* recording of a timing event, with the loop and the iteration that issued it.
Op(kind, stage, iter) == [kind |-> kind, stage |-> stage, iter |-> iter]

\* The host issues an operation: it is queued, and the host goes on.  The
\* queue is finite: the host waits while it is full.
Issue(p, op) ==
    /\ Len(queue[p]) < MaxQueue
    /\ queue' = [queue EXCEPT ![p] = Append(@, op)]
    /\ oplog' = [oplog EXCEPT ![p] = Append(@, op)]

\* Event(enable_timing=True), Event.record() and the device reaching the record.
NewEvent == [state |-> "created", time |-> 0]
Recorded(e) == [e EXCEPT !.state = "recorded"]
Completed(e, t) == [state |-> "complete", time |-> t]

\* The device of process p executes the operation at the head of its queue: a
\* phase takes its device time, a record stamps the event with the device time.
DeviceStep(p) ==
    /\ p \in world
    /\ queue[p] # <<>>
    /\ LET op == Head(queue[p])
       IN IF op.kind \in Phases
          THEN /\ \E j \in 0..jitter :
                     /\ devclock' = [devclock EXCEPT ![p] = @ + phaseDelay[op.kind] + j]
                     /\ spent' = [spent EXCEPT ![p] =
                           IF op.stage = "timed" /\ op.iter \in DOMAIN @[op.kind]
                           THEN [@ EXCEPT ![op.kind][op.iter] = phaseDelay[op.kind] + j]
                           ELSE @]
               /\ UNCHANGED events
          ELSE /\ events' = [events EXCEPT ![p] =
                    IF op.iter \in DOMAIN @[op.kind]
                    THEN [@ EXCEPT ![op.kind][op.iter] = Completed(@, devclock[p])]
                    ELSE @]
               /\ UNCHANGED <<devclock, spent>>
    /\ queue' = [queue EXCEPT ![p] = Tail(@)]
    /\ UNCHANGED <<progVars, pc, raised, setupVars, self_local_rank, niters, i,
                   delays, stats, name, result, boundDevice, group, entered,
                   now, fsVars, oplog, hist>>

\* torch.cuda.synchronize() returns once the device has executed all it was given.
Synchronized(p) == queue[p] = <<>>

\* ------------------------------------------------------------------ measure()
NoEvents == [l \in EventLists |-> <<>>]
NoDelays == [ph \in Phases |-> <<>>]

\* measure() ends, by its return or by an exception: its locals are gone.
EndMeasure(p, exc) ==
    /\ EndCall(p, exc)
    /\ niters' = [niters EXCEPT ![p] = None]
    /\ i' = [i EXCEPT ![p] = 0]
    /\ events' = [events EXCEPT ![p] = NoEvents]
    /\ delays' = [delays EXCEPT ![p] = NoDelays]
    /\ stats' = [stats EXCEPT ![p] = None]
    /\ name' = [name EXCEPT ![p] = None]

\* line 69: niters = self.DEFAULT_MEASURE_ITERATIONS
ReadIters(p) ==
    /\ pc[p] = "measure"
    /\ IF itersAttr = None
       THEN EndMeasure(p, "AttributeError")
       ELSE /\ niters' = [niters EXCEPT ![p] = itersAttr]
            /\ Goto(p, "next_batch")
            /\ UNCHANGED <<raised, setupVars, i, events, delays, stats, name>>
    /\ UNCHANGED <<progVars, self_local_rank, result, deviceVars, boundDevice,
                   group, entered, now, fsVars, oplog, hist>>

\* line 53-66: the four extension points, and the phase each of three runs
ExtensionPoints == {"next_batch", "forward", "backward", "optimizer_step"}
MethodOf(kind) ==
    CASE kind = "fwd" -> "forward"
      [] kind = "bwd" -> "backward"
      [] kind = "opt" -> "optimizer_step"

\* Extension points whose base body does nothing and returns.
ImplementedByBase(m) == TRUE

\* line 53-66: the base's body of an extension point raises NotImplementedError;
\* the method returns only where type(self) overrides it.
Implemented(m) == m \in overrides
\* self.m() is called: the call is noted, and its return when it returns.
Invoke(p, m) ==
    hist' = [hist EXCEPT ![p].called = @ \cup {m},
                         ![p].returned = IF Implemented(m) THEN @ \cup {m} ELSE @]

\* line 71 (53-54): batch = self.next_batch()
NextBatch(p) ==
    /\ pc[p] = "next_batch"
    /\ Invoke(p, "next_batch")
    /\ IF Implemented("next_batch")
       THEN /\ Goto(p, "warm_fwd")
            /\ i' = [i EXCEPT ![p] = 1]
            /\ UNCHANGED <<raised, setupVars, niters, events, delays, stats, name>>
       ELSE EndMeasure(p, "NotImplementedError")
    /\ UNCHANGED <<progVars, self_local_rank, result, deviceVars, boundDevice,
                   group, entered, now, fsVars, oplog>>

\* The position after `at` in a loop body `body` that runs niters times, and
\* the position `out` after the loop.
NextPos(p, body, at, out) ==
    LET k == CHOOSE k \in DOMAIN body : body[k] = at
    IN IF k < Len(body) THEN body[k + 1]
       ELSE IF i[p] < Get(niters[p]) THEN body[1] ELSE out
NextIter(p, body, at) ==
    IF at = body[Len(body)] /\ i[p] < Get(niters[p]) THEN i[p] + 1 ELSE i[p]

\* A warm-up of forward passes only.
WarmBodyForwardOnly == <<"warm_fwd">>
\* line 76-79: the warm-up loop
WarmBody == <<"warm_fwd", "warm_bwd", "warm_opt">>
\* A timed loop that records the pre-backward event before the forward pass.
TimedBodyEventsFirst == <<"timed_pre_fwd", "timed_pre_bwd", "timed_fwd", "timed_bwd",
                          "timed_pre_opt", "timed_opt", "timed_post_opt">>
\* line 93-103: the timed loop
TimedBody == <<"timed_pre_fwd", "timed_fwd", "timed_pre_bwd", "timed_bwd",
               "timed_pre_opt", "timed_opt", "timed_post_opt">>
\* line 147-150: the loop inside the profiler
ProfBody == <<"prof_fwd", "prof_bwd", "prof_opt">>

\* The operation a position of a loop body issues.
OpAt(at, iter) ==
    CASE at = "warm_fwd" -> Op("fwd", "warmup", iter)
      [] at = "warm_bwd" -> Op("bwd", "warmup", iter)
      [] at = "warm_opt" -> Op("opt", "warmup", iter)
      [] at = "timed_pre_fwd" -> Op("pre_fwd", "timed", iter)
      [] at = "timed_fwd" -> Op("fwd", "timed", iter)
      [] at = "timed_pre_bwd" -> Op("pre_bwd", "timed", iter)
      [] at = "timed_bwd" -> Op("bwd", "timed", iter)
      [] at = "timed_pre_opt" -> Op("pre_opt", "timed", iter)
      [] at = "timed_opt" -> Op("opt", "timed", iter)
      [] at = "timed_post_opt" -> Op("post_opt", "timed", iter)
      [] at = "prof_fwd" -> Op("fwd", "profile", iter)
      [] at = "prof_bwd" -> Op("bwd", "profile", iter)
      [] at = "prof_opt" -> Op("opt", "profile", iter)

\* One statement of a loop body: forward, backward or optimizer_step (56-66),
\* which gives the device its work where it is overridden and raises where it
\* is not, or Event.record().
LoopStep(p, body, out) ==
    /\ \E k \in DOMAIN body : body[k] = pc[p]
    /\ LET op == OpAt(pc[p], i[p])
       IN IF op.kind \in Phases /\ ~Implemented(MethodOf(op.kind))
          THEN /\ Invoke(p, MethodOf(op.kind))
               /\ EndMeasure(p, "NotImplementedError")
               /\ UNCHANGED <<queue, oplog>>
          ELSE /\ Issue(p, op)
               /\ IF op.kind \in Phases
                  THEN Invoke(p, MethodOf(op.kind))
                  ELSE UNCHANGED hist
               /\ events' = [events EXCEPT ![p] =
                     IF op.kind \in EventLists
                     THEN [@ EXCEPT ![op.kind][op.iter] = Recorded(@)]
                     ELSE @]
               /\ Goto(p, NextPos(p, body, pc[p], out))
               /\ i' = [i EXCEPT ![p] = IF NextPos(p, body, pc[p], out) = out THEN 1
                                        ELSE NextIter(p, body, pc[p])]
               /\ UNCHANGED <<raised, setupVars, niters, delays, stats, name>>
    /\ UNCHANGED <<progVars, self_local_rank, result, devclock, spent,
                   boundDevice, group, entered, now, fsVars>>

WarmUp(p) == LoopStep(p, WarmBody, "sync_warm")
Timed(p) == LoopStep(p, TimedBody, "sync_timed")
Profile(p) == LoopStep(p, ProfBody, "profile_exit")

\* line 82, 106, 153: torch.cuda.synchronize(device=self.local_rank)
Synchronize(p, at, next) ==
    /\ pc[p] = at
    /\ IF self_local_rank[p] = None
       THEN EndMeasure(p, "AttributeError")
       ELSE /\ Synchronized(p)
            /\ Goto(p, next)
            /\ UNCHANGED <<raised, setupVars, measureVars>>
    /\ UNCHANGED <<progVars, self_local_rank, result, deviceVars, boundDevice,
                   group, entered, now, fsVars, oplog, hist>>

\* The timed loop followed at once by the elapsed-time queries.
SyncTimedNoWait(p) ==
    /\ pc[p] = "sync_timed"
    /\ Goto(p, "elapsed")
    /\ UNCHANGED <<progVars, raised, setupVars, self_local_rank, measureVars,
                   result, deviceVars, boundDevice, group, entered, now, fsVars,
                   oplog, hist>>

SyncWarm(p) == Synchronize(p, "sync_warm", "name")
SyncTimed(p) == Synchronize(p, "sync_timed", "elapsed")
SyncFinal(p) == Synchronize(p, "sync_final", "barrier")

\* line 84-85: the run name, from the type's name and the time to the second
TypeName == IF overrides # {} THEN "SubTrainer" ELSE "Trainer"
Strftime(t) == t \div TicksPerSecond
RunName(t) == [type |-> TypeName, stamp |-> Strftime(t)]

\* The wall clock is read here and nowhere else: since it was last read it has
\* advanced by any number of ticks, and `now` is the time this read finds.
NameRun(p) ==
    /\ pc[p] = "name"
    /\ \E t \in now..MaxTicks :
          /\ now' = t
          /\ name' = [name EXCEPT ![p] = Some(RunName(t))]
    /\ Goto(p, "events")
    /\ UNCHANGED <<progVars, raised, setupVars, self_local_rank, niters, i,
                   events, delays, stats, result, deviceVars, boundDevice,
                   group, entered, fsVars, oplog, hist>>

\* line 89-92: four lists of niters events
CreateEvents(p) ==
    /\ pc[p] = "events"
    /\ events' = [events EXCEPT ![p] =
                    [l \in EventLists |-> [k \in 1..Get(niters[p]) |-> NewEvent]]]
    /\ spent' = [spent EXCEPT ![p] =
                    [ph \in Phases |-> [k \in 1..Get(niters[p]) |-> 0]]]
    /\ Goto(p, "timed_pre_fwd")
    /\ i' = [i EXCEPT ![p] = 1]
    /\ UNCHANGED <<progVars, raised, setupVars, self_local_rank, niters,
                   delays, stats, name, result, queue, devclock, boundDevice,
                   group, entered, now, fsVars, oplog, hist>>

\* The elapsed time taken from the later event back to the earlier one.
ElapsedTimeReversed(pre, post) == pre.time - post.time

\* line 108-110: pre.elapsed_time(post) for each pair of zip(pres, posts)
Ready(e) == e.state = "complete"
ElapsedTime(pre, post) == post.time - pre.time
Min(a, b) == IF a <= b THEN a ELSE b
Zip(pres, posts) == [k \in 1..Min(Len(pres), Len(posts)) |-> <<pres[k], posts[k]>>]
ElapsedList(pres, posts) ==
    [k \in DOMAIN Zip(pres, posts) |-> ElapsedTime(Zip(pres, posts)[k][1], Zip(pres, posts)[k][2])]
AllReady(pres, posts) ==
    \A k \in DOMAIN Zip(pres, posts) : Ready(Zip(pres, posts)[k][1]) /\ Ready(Zip(pres, posts)[k][2])

\* Forward delays taken up to the event before the optimizer step.
PostOfSkewed(ph) == CASE ph = "fwd" -> "pre_opt" [] ph = "bwd" -> "pre_opt" [] ph = "opt" -> "post_opt"

\* The lists each delay list is computed from.
PreOf(ph) == CASE ph = "fwd" -> "pre_fwd" [] ph = "bwd" -> "pre_bwd" [] ph = "opt" -> "pre_opt"
PostOf(ph) == CASE ph = "fwd" -> "pre_bwd" [] ph = "bwd" -> "pre_opt" [] ph = "opt" -> "post_opt"
ElapsedPos(ph) == CASE ph = "fwd" -> "elapsed" [] ph = "bwd" -> "elapsed_bwd" [] ph = "opt" -> "elapsed_opt"
AfterElapsed(ph) == CASE ph = "fwd" -> "elapsed_bwd" [] ph = "bwd" -> "elapsed_opt" [] ph = "opt" -> "stats"

\* One of the three list comprehensions.  The elapsed time of an event the
\* device has not reached is not defined: the query raises, or yields a value
\* that is no measurement.
Elapsed(p, ph) ==
    /\ pc[p] = ElapsedPos(ph)
    /\ LET pres == events[p][PreOf(ph)]
           posts == events[p][PostOf(ph)]
       IN IF AllReady(pres, posts)
          THEN /\ delays' = [delays EXCEPT ![p][ph] = ElapsedList(pres, posts)]
               /\ Goto(p, AfterElapsed(ph))
               /\ UNCHANGED <<raised, setupVars, niters, i, events, stats, name, hist>>
          ELSE /\ hist' = [hist EXCEPT ![p].earlyQueries = @ + 1]
               /\ \/ EndMeasure(p, "RuntimeError")
                  \/ /\ delays' = [delays EXCEPT ![p][ph] =
                                      [k \in DOMAIN Zip(pres, posts) |-> 0]]
                     /\ Goto(p, AfterElapsed(ph))
                     /\ UNCHANGED <<raised, setupVars, niters, i, events, stats, name>>
    /\ UNCHANGED <<progVars, self_local_rank, result, deviceVars, boundDevice,
                   group, entered, now, fsVars, oplog>>

\* line 112-117: float(sum(xs)) / len(xs) and statistics.stdev(xs).  A mean is
\* the fraction num/den; a standard deviation is the square root of the
\* fraction num/den, the sample variance.
RECURSIVE SumSeq(_)
SumSeq(xs) == IF xs = <<>> THEN 0 ELSE Head(xs) + SumSeq(Tail(xs))
Squares(xs) == [k \in DOMAIN xs |-> xs[k] * xs[k]]
\* A mean that divides by one less than the number of samples.
MeanOverGaps(xs) == [num |-> SumSeq(xs), den |-> Len(xs) - 1]
Mean(xs) == [num |-> SumSeq(xs), den |-> Len(xs)]
\* stdev raises StatisticsError on fewer than two values
StdevDefined(xs) == Len(xs) >= 2
Stdev(xs) ==
    [num |-> Len(xs) * SumSeq(Squares(xs)) - SumSeq(xs) * SumSeq(xs),
     den |-> Len(xs) * (Len(xs) - 1)]

Statistics(d) ==
    [fwd_mean |-> Mean(d["fwd"]), fwd_stdev |-> Stdev(d["fwd"]),
     bwd_mean |-> Mean(d["bwd"]), bwd_stdev |-> Stdev(d["bwd"]),
     opt_mean |-> Mean(d["opt"]), opt_stdev |-> Stdev(d["opt"])]

\* The statistics computed and no summary written: on to the profiling pass.
StatsWithoutSummary(p) ==
    /\ pc[p] = "stats"
    /\ IF delays[p]["fwd"] = <<>>
       THEN EndMeasure(p, "ZeroDivisionError")
       ELSE IF ~StdevDefined(delays[p]["fwd"])
       THEN EndMeasure(p, "StatisticsError")
       ELSE /\ stats' = [stats EXCEPT ![p] = Some(Statistics(delays[p]))]
            /\ Goto(p, "profile")
            /\ UNCHANGED <<raised, setupVars, niters, i, events, delays, name>>
    /\ UNCHANGED <<progVars, self_local_rank, result, deviceVars, boundDevice,
                   group, entered, now, fsVars, oplog, hist>>

Stats(p) ==
    /\ pc[p] = "stats"
    /\ IF delays[p]["fwd"] = <<>>
       THEN EndMeasure(p, "ZeroDivisionError")
       ELSE IF ~StdevDefined(delays[p]["fwd"])
       THEN EndMeasure(p, "StatisticsError")
       ELSE /\ stats' = [stats EXCEPT ![p] = Some(Statistics(delays[p]))]
            /\ Goto(p, "open")
            /\ UNCHANGED <<raised, setupVars, niters, i, events, delays, name>>
    /\ UNCHANGED <<progVars, self_local_rank, result, deviceVars, boundDevice,
                   group, entered, now, fsVars, oplog, hist>>

\* line 120-122: the delay directory is made if absent, and
\* open(f"{delay_dir}/{name}.log", "w") creates the file or truncates it.
OpenLog(p) ==
    /\ pc[p] = "open"
    /\ files' = (Get(name[p]) :> <<>>) @@ files
    /\ Goto(p, "write")
    /\ UNCHANGED <<progVars, raised, setupVars, self_local_rank, measureVars,
                   result, deviceVars, boundDevice, group, entered, now, traces,
                   oplog, hist>>

\* f"{x:.2f}" of num/den, in hundredths, and of the square root of num/den
Fmt2(x) == (200 * x.num + x.den) \div (2 * x.den)
Fmt2Sqrt(x) ==
    CHOOSE r \in 0..(100 * (MaxDelay + MaxJitter) + 1) :
        /\ (2 * r - 1) * (2 * r - 1) * x.den <= 40000 * x.num \/ r = 0
        /\ (2 * r + 1) * (2 * r + 1) * x.den > 40000 * x.num

\* line 123-127: the one line of the summary
SummaryLine(st) ==
    <<Fmt2(st.fwd_mean), Fmt2Sqrt(st.fwd_stdev), Fmt2(st.bwd_mean),
      Fmt2Sqrt(st.bwd_stdev), Fmt2(st.opt_mean), Fmt2Sqrt(st.opt_stdev)>>

\* line 123-128: fout.write(...) and fout.close(): the line, buffered, reaches
\* the file at the start of it, where this handle stands.
WriteLog(p) ==
    /\ pc[p] = "write"
    /\ files' = [files EXCEPT ![Get(name[p])] =
                    <<[text |-> SummaryLine(Get(stats[p])), by |-> <<p, hist[p].runs>>]>>]
    /\ hist' = [hist EXCEPT ![p].wrote = @ \cup {hist[p].runs},
                            ![p].writes = @ + 1]
    /\ Goto(p, "profile")
    /\ UNCHANGED <<progVars, raised, setupVars, self_local_rank, measureVars,
                   result, deviceVars, boundDevice, group, entered, now, traces,
                   oplog>>

\* line 130-146: if self.args.profiler, the profiler is entered; its trace
\* handler is built from the job directory, the run name and self.rank.
ProfileEnter(p) ==
    /\ pc[p] = "profile"
    /\ IF ~profiler
       THEN /\ Goto(p, "sync_final")
            /\ UNCHANGED <<raised, setupVars, measureVars>>
       ELSE IF ~setsRank
       THEN EndMeasure(p, "AttributeError")
       ELSE /\ Goto(p, "prof_fwd")
            /\ UNCHANGED <<raised, setupVars, measureVars>>
    /\ UNCHANGED <<progVars, self_local_rank, result, deviceVars, boundDevice,
                   group, entered, now, fsVars, oplog, hist>>

\* line 136-146: the profiler is left and its trace exported
ProfileExit(p) ==
    /\ pc[p] = "profile_exit"
    /\ traces' = traces \cup {[name |-> Get(name[p]), rank |-> p - 1]}
    /\ Goto(p, "sync_final")
    /\ UNCHANGED <<progVars, raised, setupVars, self_local_rank, measureVars,
                   result, deviceVars, boundDevice, group, entered, now, files,
                   oplog, hist>>

\* measure() without its barrier: from the final synchronization to the return.
BarrierSkipped(p) ==
    /\ pc[p] = "barrier"
    /\ Goto(p, "return")
    /\ UNCHANGED <<progVars, raised, setupVars, self_local_rank, measureVars,
                   result, deviceVars, boundDevice, group, entered, now, fsVars,
                   oplog, hist>>

\* line 155: dist.barrier(device_ids=[self.local_rank]): the process enters the
\* barrier of its group; without a group the library raises.
BarrierEnter(p) ==
    /\ pc[p] = "barrier"
    /\ IF group[p]
       THEN /\ entered' = [entered EXCEPT ![p] = @ + 1]
            /\ Goto(p, "in_barrier")
            /\ UNCHANGED <<raised, setupVars, measureVars>>
       ELSE /\ EndMeasure(p, "RuntimeError")
            /\ UNCHANGED entered
    /\ UNCHANGED <<progVars, self_local_rank, result, deviceVars, boundDevice,
                   group, now, fsVars, oplog, hist>>

\* A barrier that gives up waiting and lets the process go.
BarrierOpenOnTimeout(p) == TRUE

\* The barrier lets a process go when every process of the job has entered it.
BarrierOpen(p) == \A q \in world : entered[q] >= entered[p]

BarrierLeave(p) ==
    /\ pc[p] = "in_barrier"
    /\ BarrierOpen(p)
    /\ Goto(p, "return")
    /\ UNCHANGED <<progVars, raised, setupVars, self_local_rank, measureVars,
                   result, deviceVars, boundDevice, group, entered, now, fsVars,
                   oplog, hist>>

\* line 157-164: the six statistics are returned
Return(p) ==
    /\ pc[p] = "return"
    /\ result' = [result EXCEPT ![p] = stats[p]]
    /\ hist' = [hist EXCEPT ![p].returns = @ + 1]
    /\ EndMeasure(p, "none")
    /\ UNCHANGED <<progVars, self_local_rank, deviceVars, boundDevice, group,
                   entered, now, fsVars, oplog>>

\* ------------------------------------------------------------------ initial states
\* The environment torchrun gives process p of a job of n processes.
JobEnv(p, n) ==
    [v \in EnvNames |-> IF v = "WORLD_SIZE" THEN Numerals[n + 1] ELSE Numerals[p]]
NoEnv == [v \in EnvNames |-> Absent]
\* The values one variable takes where setup() is examined: not set, negative,
\* not a number, or as the job gives it.
SetupEnvs(p, n) ==
    {e \in [EnvNames -> {Absent, "-2", "x"} \cup {Numerals[n + 1], Numerals[p]}] :
        \A v \in EnvNames : e[v] \in {Absent, "-2", "x", JobEnv(p, n)[v]}}

\* Nothing has run: every process is idle, nothing is queued or written.
InitState ==
    /\ pc = [p \in Procs |-> "idle"]
    /\ raised = [p \in Procs |-> "none"]
    /\ local_rank = [p \in Procs |-> None]
    /\ world_size = [p \in Procs |-> None]
    /\ rank = [p \in Procs |-> None]
    /\ self_local_rank = [p \in Procs |-> None]
    /\ niters = [p \in Procs |-> None]
    /\ i = [p \in Procs |-> 0]
    /\ events = [p \in Procs |-> NoEvents]
    /\ delays = [p \in Procs |-> NoDelays]
    /\ stats = [p \in Procs |-> None]
    /\ name = [p \in Procs |-> None]
    /\ result = [p \in Procs |-> None]
    /\ queue = [p \in Procs |-> <<>>]
    /\ devclock = [p \in Procs |-> 0]
    /\ boundDevice = [p \in Procs |-> None]
    /\ group = [p \in Procs |-> FALSE]
    /\ entered = [p \in Procs |-> 0]
    /\ now = 0
    /\ files = <<>>
    /\ traces = {}
    /\ oplog = [p \in Procs |-> <<>>]
    /\ spent = [p \in Procs |-> NoDelays]
    /\ hist = [p \in Procs |-> NoHist]

SteadyDevice ==
    /\ phaseDelay = [ph \in Phases |-> 1]
    /\ jitter = 0

\* One trainer and a caller that makes any calls on it: every environment with
\* a working subclass, and every class and configuration with the job's
\* environment.
Init ==
    /\ InitState
    /\ SteadyDevice
    /\ world = {1}
    /\ driver = [p \in Procs |-> "any"]
    /\ \/ /\ mode = [p \in Procs |-> "SPMD"]
          /\ environ \in {[p \in Procs |-> IF p = 1 THEN e ELSE NoEnv] : e \in SetupEnvs(1, 1)}
          /\ overrides = ExtensionPoints
          /\ itersAttr = Some(MaxIters)
          /\ setsRank = TRUE
          /\ profiler = FALSE
       \/ /\ mode \in {[p \in Procs |-> m] : m \in {"SPMD", "MPMD"}}
          /\ environ = [p \in Procs |-> IF p = 1 THEN JobEnv(1, 1) ELSE NoEnv]
          /\ overrides \in SUBSET ExtensionPoints
          /\ itersAttr \in {None} \cup {Some(n) : n \in 1..MaxIters}
          /\ setsRank \in BOOLEAN
          /\ profiler \in BOOLEAN

\* One process that runs setup(), measure(), teardown() on a working subclass,
\* with every steady device timing, and with jitter on the shortest one.
InitTiming ==
    /\ InitState
    /\ world = {1}
    /\ driver = [p \in Procs |-> "spmd"]
    /\ mode = [p \in Procs |-> "SPMD"]
    /\ environ = [p \in Procs |-> IF p = 1 THEN JobEnv(1, 1) ELSE NoEnv]
    /\ overrides = ExtensionPoints
    /\ itersAttr \in {Some(n) : n \in 1..MaxIters}
    /\ setsRank \in BOOLEAN
    /\ profiler \in BOOLEAN
    /\ \/ phaseDelay \in [Phases -> 1..MaxDelay] /\ jitter = 0
       \/ phaseDelay = [ph \in Phases |-> 1] /\ jitter \in 1..MaxJitter

\* A job of NumProcs processes, each running setup(), measure(), teardown();
\* a process may lack RANK in its environment.
InitGroup ==
    /\ InitState
    /\ SteadyDevice
    /\ world = Procs
    /\ driver = [p \in Procs |-> "spmd"]
    /\ mode = [p \in Procs |-> "SPMD"]
    /\ environ \in [Procs -> [EnvNames -> {Absent} \cup {Numerals[k] : k \in DOMAIN Numerals}]]
    /\ \A p \in Procs : environ[p] \in {JobEnv(p, NumProcs), [JobEnv(p, NumProcs) EXCEPT !["RANK"] = Absent]}
    /\ overrides = ExtensionPoints
    /\ itersAttr \in {Some(n) : n \in 1..MaxIters}
    /\ setsRank \in BOOLEAN
    /\ profiler \in BOOLEAN

\* ------------------------------------------------------------------ next
Next ==
    \/ \E p \in Procs, c \in Calls : Call(p, c)
    \/ \E p \in Procs : SetupReadLocalRank(p)
    \/ \E p \in Procs : SetDevice(p)
    \/ \E p \in Procs : SetupReadWorldSize(p)
    \/ \E p \in Procs : SetupReadRank(p)
    \/ \E p \in Procs : SetupAssert(p)
    \/ \E p \in Procs : InitProcessGroup(p)
    \/ \E p \in Procs : Teardown(p)
    \/ \E p \in Procs : ReadIters(p)
    \/ \E p \in Procs : NextBatch(p)
    \/ \E p \in Procs : WarmUp(p)
    \/ \E p \in Procs : SyncWarm(p)
    \/ \E p \in Procs : NameRun(p)
    \/ \E p \in Procs : CreateEvents(p)
    \/ \E p \in Procs : Timed(p)
    \/ \E p \in Procs : SyncTimed(p)
    \/ \E p \in Procs, ph \in Phases : Elapsed(p, ph)
    \/ \E p \in Procs : Stats(p)
    \/ \E p \in Procs : OpenLog(p)
    \/ \E p \in Procs : WriteLog(p)
    \/ \E p \in Procs : ProfileEnter(p)
    \/ \E p \in Procs : Profile(p)
    \/ \E p \in Procs : ProfileExit(p)
    \/ \E p \in Procs : SyncFinal(p)
    \/ \E p \in Procs : BarrierEnter(p)
    \/ \E p \in Procs : BarrierLeave(p)
    \/ \E p \in Procs : Return(p)
    \/ \E p \in Procs : DeviceStep(p)

Spec == Init /\ [][Next]_vars
SpecTiming == InitTiming /\ [][Next]_vars
SpecGroup == InitGroup /\ [][Next]_vars

\* ------------------------------------------------------------------ properties
LoopPositions ==
    {WarmBody[k] : k \in DOMAIN WarmBody} \cup {TimedBody[k] : k \in DOMAIN TimedBody}
        \cup {ProfBody[k] : k \in DOMAIN ProfBody}
ElapsedPositions == {ElapsedPos(ph) : ph \in Phases}
\* The last call on p's trainer was c and has ended.
Ended(p, c) == hist[p].last = c /\ pc[p] \in {"idle", "dead"}
\* The operations of kind k that p's running (or last) measure() issued in a loop.
Issued(p, stage, k) ==
    {n \in DOMAIN oplog[p] : oplog[p][n].stage = stage /\ oplog[p][n].kind = k}

\* C1: in a job whose processes each run setup(), measure(), teardown(), a
\* process is at the return of measure(), or past it, only when every process
\* of the job has entered the barrier, and so none is still in its warm-up,
\* timed or profiling loop.
C1_ReturnAfterAllEntered ==
    \A p \in world, q \in world :
        (pc[p] = "return" \/ hist[p].returns > 0) =>
            /\ entered[q] >= 1
            /\ pc[q] \notin LoopPositions
\* A process has returned from measure() while a peer still waits in the barrier.
C1_Witness ==
    \E p \in world, q \in world :
        /\ p # q
        /\ hist[p].returns > 0
        /\ pc[q] = "in_barrier"

\* C2: no elapsed time is read from an event the device has not reached, and
\* while measure() computes the delays the device has executed all it was
\* given and all 4 * niters events of the timed window are complete.
C2_QueriesAfterSync ==
    \A p \in world :
        /\ hist[p].earlyQueries = 0
        /\ pc[p] \in ElapsedPositions =>
              /\ Synchronized(p)
              /\ \A l \in EventLists :
                    /\ Len(events[p][l]) = Get(niters[p])
                    /\ \A k \in DOMAIN events[p][l] : Ready(events[p][l][k])
\* The three delay lists of a window of MaxIters iterations have been computed.
C2_Witness ==
    \E p \in world :
        /\ pc[p] = "stats"
        /\ \A ph \in Phases : Len(delays[p][ph]) = MaxIters
        /\ devclock[p] > 0

\* C3: with profiling enabled, a run of measure() that wrote its summary runs
\* niters further iterations inside the profiler, exports its trace and
\* returns, as a run without profiling does.
C3_ProfiledRunCompletes ==
    \A p \in world :
        (profiler /\ Ended(p, "measure") /\ hist[p].runs \in hist[p].wrote) =>
            /\ raised[p] = "none"
            /\ \A ph \in Phases : Cardinality(Issued(p, "profile", ph)) = Get(itersAttr)
            /\ \E t \in traces : t.rank = p - 1

\* C4: destroy_process_group is called only when a group created by setup()
\* exists, and no more often than groups were created.
C4_DestroyOnlyExistingGroup ==
    \A p \in world :
        /\ hist[p].destroys = hist[p].destroyed
        /\ hist[p].destroyed <= hist[p].created

\* C5: when LOCAL_RANK, WORLD_SIZE or RANK is not set, setup() never reaches
\* init_process_group, and it ends with a configuration error.
C5_AbsentEnvFailsBeforeInit ==
    \A p \in world :
        (mode[p] = "SPMD" /\ \E v \in EnvNames : environ[p][v] = Absent) =>
            /\ hist[p].initCalls = {}
            /\ pc[p] # "init_process_group"
            /\ ~group[p]
            /\ Ended(p, "setup") => raised[p] \in {"AssertionError", "ValueError: int"}
\* setup() has ended with the assertion's error, a variable being unset.
C5_Witness ==
    \E p \in world :
        /\ \E v \in EnvNames : environ[p][v] = Absent
        /\ Ended(p, "setup")
        /\ raised[p] = "AssertionError"
        /\ hist[p].envReads >= 3

\* C6: with a mode other than "SPMD", setup() reads no environment variable,
\* binds no device and initializes no group, and ends with the
\* unsupported-mode error.
C6_OtherModeDoesNothing ==
    \A p \in world :
        mode[p] # "SPMD" =>
            /\ hist[p].envReads = 0
            /\ hist[p].setDevice = {}
            /\ boundDevice[p] = None
            /\ self_local_rank[p] = None
            /\ hist[p].initCalls = {}
            /\ ~group[p]
            /\ Ended(p, "setup") => raised[p] = "ValueError: mode"
\* setup() has ended with the unsupported-mode error.
C6_Witness ==
    \E p \in world :
        /\ mode[p] # "SPMD"
        /\ Ended(p, "setup")
        /\ raised[p] = "ValueError: mode"

\* C7: with a window of one iteration, measure() does not end in the statistics
\* step with the error of a standard deviation of a single value.
C7_SingleIterationHandled ==
    \A p \in world :
        itersAttr = Some(1) => raised[p] # "StatisticsError"

\* C8: every run of measure() that wrote its summary has a file of its own,
\* holding that run's line and nothing else.
C8_OneFilePerRun ==
    \A p \in world :
        \A k \in hist[p].wrote :
            \E n \in DOMAIN files :
                /\ Len(files[n]) = 1
                /\ files[n][1].by = <<p, k>>

\* C9: init_process_group is reached only with a local rank, a world size and
\* a rank that are all non-negative.
C9_InitOnlyNonNegative ==
    \A p \in world :
        \A c \in hist[p].initCalls :
            c.local_rank >= 0 /\ c.world_size >= 0 /\ c.rank >= 0

\* C10: at the return of measure() each of the three delay lists holds niters
\* samples, the k-th being the device time the phase took in the k-th timed
\* iteration, and six statistics are returned.
C10_SamplesPerIteration ==
    \A p \in world :
        pc[p] = "return" =>
            /\ \A ph \in Phases :
                  /\ Len(delays[p][ph]) = Get(niters[p])
                  /\ delays[p][ph] = spent[p][ph]
            /\ stats[p] # None
            /\ DOMAIN Get(stats[p]) = {"fwd_mean", "fwd_stdev", "bwd_mean",
                                       "bwd_stdev", "opt_mean", "opt_stdev"}
\* measure() returns from a window of MaxIters iterations whose first and last
\* forward took different times.
C10_Witness ==
    \E p \in world :
        /\ pc[p] = "return"
        /\ Len(delays[p]["fwd"]) = MaxIters
        /\ delays[p]["fwd"][1] # delays[p]["fwd"][MaxIters]
        /\ delays[p]["fwd"][1] # delays[p]["bwd"][1] + delays[p]["fwd"][1]

\* The six statistics st are exactly the steady device times: each mean is the
\* phase's device time and each variance is zero.
SteadyStatistics(st) ==
    /\ st.fwd_mean.num = phaseDelay["fwd"] * st.fwd_mean.den
    /\ st.bwd_mean.num = phaseDelay["bwd"] * st.bwd_mean.den
    /\ st.opt_mean.num = phaseDelay["opt"] * st.opt_mean.den
    /\ st.fwd_mean.den > 0 /\ st.bwd_mean.den > 0 /\ st.opt_mean.den > 0
    /\ st.fwd_stdev.num = 0 /\ st.bwd_stdev.num = 0 /\ st.opt_stdev.num = 0
    /\ st.fwd_stdev.den > 0 /\ st.bwd_stdev.den > 0 /\ st.opt_stdev.den > 0

\* C11: on a device without jitter, where forward, backward and optimizer step
\* take the same time F, B and O in every iteration, a measure() over two or
\* more iterations returns the means F, B and O and three standard deviations
\* of zero.
C11_SteadyPhasesExactStatistics ==
    \A p \in world :
        (jitter = 0 /\ itersAttr # None /\ Get(itersAttr) >= 2) =>
            /\ pc[p] = "return" => SteadyStatistics(Get(stats[p]))
            /\ result[p] # None => SteadyStatistics(Get(result[p]))
\* measure() has returned the statistics of a jitter-free window of MaxIters
\* iterations whose three phases take different times.
C11_Witness ==
    \E p \in world :
        /\ jitter = 0
        /\ phaseDelay["fwd"] # phaseDelay["bwd"]
        /\ phaseDelay["bwd"] # phaseDelay["opt"]
        /\ itersAttr = Some(MaxIters)
        /\ hist[p].returns > 0
        /\ result[p] # None
        /\ Get(result[p]).bwd_mean.num = phaseDelay["bwd"] * MaxIters

\* C12: every elapsed time measure() computes between an event and the event
\* paired with it (pre-forward to pre-backward, pre-backward to pre-optimizer,
\* pre-optimizer to post-optimizer) is at least zero, the device clock never
\* running backwards.
C12_ElapsedNonNegative ==
    \A p \in world :
        \A ph \in Phases :
            \A k \in DOMAIN delays[p][ph] : delays[p][ph][k] >= 0
\* The three delay lists of a window have been computed from events the device
\* stamped at different times.
C12_Witness ==
    \E p \in world :
        /\ pc[p] = "stats"
        /\ \A ph \in Phases :
              /\ Len(delays[p][ph]) = MaxIters
              /\ \A k \in DOMAIN delays[p][ph] :
                    /\ delays[p][ph][k] > 0
                    /\ events[p][PostOf(ph)][k].time > events[p][PreOf(ph)][k].time
        /\ jitter > 0

\* C13: a call of next_batch, forward, backward or optimizer_step on a trainer
\* whose class does not override the method never returns a value: it raises
\* the not-implemented error, which ends the measure() that made the call.
C13_BaseExtensionPointsRaise ==
    \A p \in world :
        \A m \in ExtensionPoints \ overrides :
            /\ m \notin hist[p].returned
            /\ (m \in hist[p].called /\ hist[p].last = "measure") =>
                  /\ pc[p] \in {"idle", "dead"}
                  /\ raised[p] = "NotImplementedError"
                  /\ result[p] = None
\* measure() has ended in the base's body of a method the class does not
\* override, reached after the overridden methods before it returned.
C13_Witness ==
    \E p \in world :
        /\ Ended(p, "measure")
        /\ raised[p] = "NotImplementedError"
        /\ hist[p].called \ hist[p].returned # {}
        /\ hist[p].called \ hist[p].returned \subseteq ExtensionPoints \ overrides
        /\ hist[p].returned # {}

\* The operations niters warm-up iterations give the device, in order.
WarmLog(n) ==
    [k \in 1..(3 * n) |->
        Op(<<"fwd", "bwd", "opt">>[((k - 1) % 3) + 1], "warmup", ((k - 1) \div 3) + 1)]
WarmPositions == {WarmBody[k] : k \in DOMAIN WarmBody}

\* C14: measure() issues exactly niters warm-up iterations of forward, backward
\* and optimizer step, as many as the timed window has, and then synchronizes
\* with the device, before it records the first event of the timed window; it
\* records no event during the warm-up.
C14_WarmUpThenSyncThenEvents ==
    \A p \in world :
        LET n == Get(itersAttr)
            past == {k \in DOMAIN oplog[p] : oplog[p][k].stage # "warmup"}
        IN /\ pc[p] \in WarmPositions \cup {"sync_warm"} =>
                 /\ events[p] = NoEvents
                 /\ past = {}
                 /\ \A k \in DOMAIN oplog[p] : oplog[p][k].kind \in Phases
           /\ pc[p] = "sync_warm" => oplog[p] = WarmLog(n)
           /\ pc[p] \in {"name", "events"} =>
                 /\ oplog[p] = WarmLog(n)
                 /\ Synchronized(p)
           /\ past # {} =>
                 /\ Len(oplog[p]) > 3 * n
                 /\ SubSeq(oplog[p], 1, 3 * n) = WarmLog(n)
                 /\ past = (3 * n + 1)..Len(oplog[p])
                 /\ oplog[p][3 * n + 1] = Op("pre_fwd", "timed", 1)
\* After a warm-up of MaxIters iterations and the synchronization, the first
\* event of the timed window has been recorded.
C14_Witness ==
    \E p \in world :
        /\ itersAttr = Some(MaxIters)
        /\ pc[p] = "timed_fwd"
        /\ i[p] = 1
        /\ Len(oplog[p]) = 3 * MaxIters + 1
        /\ events[p]["pre_fwd"][1].state # "created"

\* The operations niters timed iterations give the device, in order.
TimedKinds == <<"pre_fwd", "fwd", "pre_bwd", "bwd", "pre_opt", "opt", "post_opt">>
TimedLog(n) ==
    [k \in 1..(7 * n) |->
        Op(TimedKinds[((k - 1) % 7) + 1], "timed", ((k - 1) \div 7) + 1)]
IsTimed(op) == op.stage = "timed"

\* C15: the operations of the timed window reach the device in this order, for
\* iteration 1, then 2, and so on to niters: pre-forward event, forward,
\* pre-backward event, backward, pre-optimizer event, optimizer step,
\* post-optimizer event.  They are issued one after another with nothing
\* between them, and the device takes them in the order of issue.
C15_TimedIterationOrder ==
    \A p \in world :
        LET n == Get(itersAttr)
            timed == SelectSeq(oplog[p], IsTimed)
            at == {k \in DOMAIN oplog[p] : IsTimed(oplog[p][k])}
        IN /\ timed # <<>> =>
                 /\ Len(timed) <= 7 * n
                 /\ timed = SubSeq(TimedLog(n), 1, Len(timed))
                 /\ at = (3 * n + 1)..(3 * n + Len(timed))
           /\ pc[p] \in {"sync_timed"} \cup ElapsedPositions => timed = TimedLog(n)
           /\ Len(queue[p]) <= Len(oplog[p])
           /\ queue[p] = SubSeq(oplog[p], Len(oplog[p]) - Len(queue[p]) + 1, Len(oplog[p]))
\* The whole timed window of MaxIters iterations has been issued and the
\* device still holds the last record.
C15_Witness ==
    \E p \in world :
        /\ itersAttr = Some(MaxIters)
        /\ pc[p] = "sync_timed"
        /\ Len(SelectSeq(oplog[p], IsTimed)) = 7 * MaxIters
        /\ queue[p] = <<Op("post_opt", "timed", MaxIters)>>

\* C16: while a process of the job has not entered the barrier of measure(),
\* because it stalls or because it ended before the barrier, no other process
\* gets to the return of measure(): no step takes a process out of the barrier
\* or to the return, whatever time passes.
C16_NoReturnWithoutPeer ==
    [][\A p \in world :
          (\E q \in world \ {p} : entered[q] = 0) =>
              /\ pc'[p] # "return"
              /\ hist'[p].returns = 0
              /\ pc[p] = "in_barrier" => pc'[p] = "in_barrier"]_vars
\* A process waits in the barrier for a peer that ended in setup() and will
\* never enter it.
C16_Witness ==
    \E p \in world, q \in world :
        /\ p # q
        /\ pc[p] = "in_barrier"
        /\ pc[q] = "dead"
        /\ entered[q] = 0
        /\ hist[q].runs = 0

\* C17: measure() on a trainer of the base class, which overrides none of the
\* extension points, ends with the not-implemented error of an extension
\* point, and before that it synchronizes with no device, records no event,
\* writes no summary and enters no barrier.
C17_BaseMeasureNotImplemented ==
    \A p \in world :
        (overrides = {} /\ hist[p].last = "measure") =>
            /\ pc[p] \in {"measure", "next_batch", "idle", "dead"}
            /\ oplog[p] = <<>>
            /\ hist[p].runs \notin hist[p].wrote
            /\ hist[p].returns = 0
            /\ pc[p] \in {"idle", "dead"} => raised[p] = "NotImplementedError"

\* C18: set_device is never called with -1, the value setup() holds for a
\* LOCAL_RANK that is not set, and a setup() that ends with the error of a
\* variable not being set has bound no device.
C18_BindOnlyValidLocalRank ==
    \A p \in world :
        /\ -1 \notin hist[p].setDevice
        /\ (Ended(p, "setup") /\ raised[p] = "AssertionError") => boundDevice[p] = None

\* The positions of measure() up to the close of the summary file, and those
\* after it.
BeforeWritten ==
    {"measure", "next_batch", "sync_warm", "name", "events", "sync_timed", "stats",
     "open", "write"} \cup WarmPositions \cup ElapsedPositions
        \cup {TimedBody[k] : k \in DOMAIN TimedBody}
AfterWritten ==
    {"profile", "profile_exit", "sync_final", "barrier", "in_barrier", "return"}
        \cup {ProfBody[k] : k \in DOMAIN ProfBody}

\* C19: a run of measure() writes its summary once: after the synchronization
\* that ends the timed window, and before the profiling pass and the barrier.
\* So when a process of the job is at the return of measure(), or past it,
\* every process of the job has written and closed its summary.
C19_SummaryOnceBeforeBarrier ==
    \A p \in world :
        /\ hist[p].writes = Cardinality(hist[p].wrote)
        /\ pc[p] \in AfterWritten => hist[p].runs \in hist[p].wrote
        /\ pc[p] \in BeforeWritten =>
              /\ hist[p].runs \notin hist[p].wrote
              /\ \A k \in DOMAIN oplog[p] : oplog[p][k].stage # "profile"
              /\ entered[p] < hist[p].runs
        /\ pc[p] \in {"open", "write"} =>
              /\ Synchronized(p)
              /\ SelectSeq(oplog[p], IsTimed) = TimedLog(Get(itersAttr))
        /\ \A q \in world :
              (pc[p] = "return" \/ hist[p].returns > 0) =>
                  /\ hist[q].wrote # {}
                  /\ hist[q].writes = 1
                  /\ pc[q] \notin BeforeWritten
\* With profiling on, a process is at the return of measure() while a peer,
\* its summary written and its trace exported, is still in the barrier.
C19_Witness ==
    \E p \in world, q \in world :
        /\ p # q
        /\ profiler
        /\ pc[p] = "return"
        /\ pc[q] = "in_barrier"
        /\ hist[q].writes = 1
        /\ hist[p].writes = 1
        /\ Cardinality(traces) >= 1
        /\ DOMAIN files # {}

====
